---------------------------- MODULE Spec2Model ----------------------------
(***************************************************************************)
(* A model of gwm (src/gwm.py): the Root -> Task -> Screen -> Workspace -> *)
(* Window ownership tree, its active path, the commands of class Tree and  *)
(* the master/stack layout pass, together with the part of the display     *)
(* server the window manager reads and writes.                             *)
(*                                                                         *)
(* Conventions.                                                            *)
(*  - A node is a record; the tree is the nested record `root`.  A node    *)
(*    object of the source is named here by its path: the sequence of      *)
(*    1-based child positions leading to it from the root (<<>> is the     *)
(*    root).  i_active_child keeps the source's 0-based (and possibly      *)
(*    negative) Python value.                                              *)
(*  - Strings that the source inspects character by character (the root    *)
(*    window's name, task names) are sequences of one-character strings.   *)
(*  - master_factor is held in hundredths (60 for 0.6); the binary         *)
(*    floating-point rounding of the source's repeated +-0.05 steps is     *)
(*    idealised to exact arithmetic, int(w * f) is (w * f) \div 100.       *)
(*  - A failed assert of the source ends the process: `failed` holds its   *)
(*    message and no action is enabled afterwards.                         *)
(***************************************************************************)
EXTENDS Integers, Sequences, FiniteSets, TLC

VARIABLES
    root,       \* Tree.root: the ownership tree
    monitors,   \* what xinerama_query_screens reports: a sequence of rectangles
    xvalid,     \* the handles that are children of the root window (query_tree)
    xgeom,      \* display server: geometry of every window handle
    xborder,    \* display server: border colour of every window handle
    xfocus,     \* display server: the input focus (a handle, or RootWindow)
    failed      \* "" or the message of the assert that ended the process

vars == <<root, monitors, xvalid, xgeom, xborder, xfocus, failed>>

---------------------------------------------------------------------------
(* Bounds of the model                                                     *)

MaxWindows == 3          \* window handles of the single-task specifications
MaxTaskWindows == 2      \* window handles of the specifications with two tasks
MaxMonitors == 2         \* monitors the display server reports at most
MaxWorkspaceKey == 1     \* the workspace keys pressed are those of 0..MaxWorkspaceKey

---------------------------------------------------------------------------
(* Constants of the program                                                *)

MASTER_FACTOR_DEFAULT == 60
MASTER_FACTOR_MIN == 10
MASTER_FACTOR_MAX == 90
MASTER_FACTOR_ADJUST_AMOUNT == 5
N_WORKSPACES == 4
WINDOW_BORDER_WIDTH == 2
WINDOW_BORDER_COLOR_DEFAULT == "#222222"
WINDOW_BORDER_COLOR_FOCUSED == "#bbbbbb"
INT16_MAX == 32767

TASK_NAME_DEFAULT == <<"d", "e", "f", "a", "u", "l", "t">>

TASK_WINDOW_MOVE_MARKER ==
    <<"T", "A", "S", "K", "_", "W", "I", "N", "D", "O", "W", "_",
      "M", "O", "V", "E", "_", "M", "A", "R", "K", "E", "R">>

---------------------------------------------------------------------------
(* Python list and string primitives                                       *)

\* The 1-based position that Python's list[i] reads, 0 for an IndexError.
PyIndex(list, i) ==
    IF 0 <= i /\ i < Len(list) THEN i + 1
    ELSE IF i < 0 /\ -Len(list) <= i THEN Len(list) + i + 1
    ELSE 0

\* list with the element at position k deleted.
DeleteAt(list, k) ==
    [j \in 1..(Len(list) - 1) |-> IF j < k THEN list[j] ELSE list[j + 1]]

\* reversed(list)
Reversed(list) == [j \in 1..Len(list) |-> list[Len(list) + 1 - j]]

Range(f) == {f[j] : j \in DOMAIN f}

\* str.startswith(prefix)
StartsWith(str, prefix) ==
    /\ Len(prefix) <= Len(str)
    /\ SubSeq(str, 1, Len(prefix)) = prefix

RECURSIVE LStrip(_, _)
\* str.lstrip(chars): drops every leading character that occurs in chars.
LStrip(str, chars) ==
    IF str # <<>> /\ Head(str) \in Range(chars)
    THEN LStrip(Tail(str), chars)
    ELSE str

---------------------------------------------------------------------------
(* class Node and its subclasses                                           *)

None == <<0>>      \* Optional[...]: no node (0 is never a child position)

Node == [kind |-> "Node", children |-> <<>>, i_active_child |-> 0]

Window(xlib_window) ==
    [kind |-> "Window", children |-> <<>>, i_active_child |-> 0,
     xlib_window |-> xlib_window]

Workspace ==
    [kind |-> "Workspace", children |-> <<>>, i_active_child |-> 0,
     master_factor |-> MASTER_FACTOR_DEFAULT]

Screen == [kind |-> "Screen", children |-> <<>>, i_active_child |-> 0]

Task(name) ==
    [kind |-> "Task", children |-> <<>>, i_active_child |-> 0, name |-> name]

RECURSIVE NodeAt(_, _)
\* The node object a path names.
NodeAt(n, path) ==
    IF path = <<>> THEN n ELSE NodeAt(n.children[Head(path)], Tail(path))

RECURSIVE ReplaceAt(_, _, _)
\* The tree with the node a path names replaced.
ReplaceAt(n, path, m) ==
    IF path = <<>> THEN m
    ELSE [n EXCEPT !.children[Head(path)] = ReplaceAt(@, Tail(path), m)]

\* self._parent, as a path
ParentOf(path) == SubSeq(path, 1, Len(path) - 1)

\* Node.append on the node at `parent`
append(r, parent, child, set_active) ==
    LET p == NodeAt(r, parent)
        q == [p EXCEPT !.children = Append(@, child),
                       !.i_active_child =
                           IF set_active THEN Len(p.children) ELSE @]
    IN  ReplaceAt(r, parent, q)

\* Node.get_index
get_index(path) == IF path = <<>> THEN 0 ELSE path[Len(path)] - 1

\* Node.remove with line 120 selecting the first child, in place of the
\* last, after the active child has been removed
remove_to_first(r, path) ==
    IF path = <<>> THEN r
    ELSE LET parent == ParentOf(path)
             p == NodeAt(r, parent)
             k == path[Len(path)]
             active_child == PyIndex(p.children, p.i_active_child)
             rest == DeleteAt(p.children, k)
             q == [p EXCEPT
                     !.children = rest,
                     !.i_active_child =
                         IF active_child = k THEN 0
                         ELSE IF active_child > k THEN active_child - 2
                         ELSE active_child - 1]
         IN  ReplaceAt(r, parent, q)

\* Node.remove without lines 119-122: the parent's active index is left as
\* it was
remove_keeping_index(r, path) ==
    IF path = <<>> THEN r
    ELSE LET parent == ParentOf(path)
             p == NodeAt(r, parent)
         IN  ReplaceAt(r, parent,
                       [p EXCEPT !.children = DeleteAt(@, path[Len(path)])])

\* Node.remove on the node at `path`
remove(r, path) ==
    IF path = <<>> THEN r
    ELSE LET parent == ParentOf(path)
             p == NodeAt(r, parent)
             k == path[Len(path)]
             active_child == PyIndex(p.children, p.i_active_child)
             rest == DeleteAt(p.children, k)
             q == [p EXCEPT
                     !.children = rest,
                     !.i_active_child =
                         IF active_child = k THEN Len(rest) - 1
                         ELSE IF active_child > k THEN active_child - 2
                         ELSE active_child - 1]
         IN  ReplaceAt(r, parent, q)

\* Where the node at `path` is found once the node at `gone` has been removed.
AfterRemove(path, gone) ==
    IF /\ Len(path) >= Len(gone)
       /\ gone # <<>>
       /\ SubSeq(path, 1, Len(gone) - 1) = ParentOf(gone)
       /\ path[Len(gone)] > gone[Len(gone)]
    THEN [path EXCEPT ![Len(gone)] = @ - 1]
    ELSE path

\* Node.get_sibling_by_index
get_sibling_by_index(r, path, index) ==
    IF path = <<>> THEN None
    ELSE LET k == PyIndex(NodeAt(r, ParentOf(path)).children, index)
         IN  IF k = 0 THEN None ELSE Append(ParentOf(path), k)

\* Node.get_sibling_by_offset with line 137 returning self as line 135 does
get_sibling_by_offset_self(r, path, offset) == path

\* Node.get_sibling_by_offset
get_sibling_by_offset(r, path, offset) ==
    IF path = <<>> THEN path
    ELSE LET n == Len(NodeAt(r, ParentOf(path)).children)
         IN  Append(ParentOf(path), ((get_index(path) + offset) % n) + 1)

RECURSIVE SetActiveChain(_, _)
\* The loop of Node.activate: every ancestor selects the child on the path.
SetActiveChain(r, path) ==
    IF path = <<>> THEN r
    ELSE LET parent == ParentOf(path)
             p == NodeAt(r, parent)
         IN  SetActiveChain(
                 ReplaceAt(r, parent, [p EXCEPT !.i_active_child = get_index(path)]),
                 parent)

\* Where Node.activate leaves the node at `path`.
ActivatedPath(r, path, promote) ==
    IF path # <<>> /\ promote
    THEN Append(ParentOf(path), Len(NodeAt(r, ParentOf(path)).children))
    ELSE path

\* Node.activate without lines 140-142: the node stays where it is among
\* its siblings
activate_in_place(r, path, promote) == SetActiveChain(r, path)

\* Node.activate
activate(r, path, promote) ==
    IF path # <<>> /\ promote
    THEN LET self == NodeAt(r, path)
             r1 == remove(r, path)
             r2 == append(r1, ParentOf(path), self, FALSE)
         IN  SetActiveChain(r2, ActivatedPath(r, path, promote))
    ELSE SetActiveChain(r, path)

RECURSIVE search_active(_, _, _)
\* Node.search_active, started on the node at `path`
search_active(r, path, cls) ==
    LET self == NodeAt(r, path)
        k == PyIndex(self.children, self.i_active_child)
    IN  IF self.kind = cls THEN path
        ELSE IF k = 0 THEN None
        ELSE search_active(r, Append(path, k), cls)

RECURSIVE SearchAllFrom(_, _, _, _)
RECURSIVE search_all(_, _, _)
\* the loop over the children in Node._search_all_recursive
SearchAllFrom(r, path, cls, j) ==
    IF j > Len(NodeAt(r, path).children) THEN <<>>
    ELSE search_all(r, Append(path, j), cls) \o SearchAllFrom(r, path, cls, j + 1)

\* Node.search_all, started on the node at `path`: pre-order
search_all(r, path, cls) ==
    (IF NodeAt(r, path).kind = cls THEN <<path>> ELSE <<>>)
        \o SearchAllFrom(r, path, cls, 1)

\* Node.is_highest_index
is_highest_index(r, path) ==
    IF path = <<>> THEN FALSE
    ELSE get_index(path) = Len(NodeAt(r, ParentOf(path)).children) - 1

\* Workspace.adjust_master_factor
Max(a, b) == IF a >= b THEN a ELSE b
Min(a, b) == IF a <= b THEN a ELSE b

\* Workspace.adjust_master_factor without the max(min(...)) of line 209
adjust_master_factor_unclamped(master_factor, amount) == master_factor + amount

adjust_master_factor(master_factor, amount) ==
    Max(Min(master_factor + amount, MASTER_FACTOR_MAX), MASTER_FACTOR_MIN)

---------------------------------------------------------------------------
(* The display server as the window manager sees it                        *)

Handles == 1..MaxWindows     \* window handles clients may use
RootWindow == 0              \* Tree._root_window

\* A window that does not exist has no geometry and no border colour.
NoGeometry == [x |-> 0, y |-> 0, width |-> 0, height |-> 0, border_width |-> 0]
\* The geometry a client gives a window it creates.
ClientGeometry == [x |-> 0, y |-> 0, width |-> 1, height |-> 1, border_width |-> 0]
NoColor == ""

\* Tree._is_window_valid
_is_window_valid(xlib_window) == xlib_window \in xvalid

\* Tree._get_screen_count
_get_screen_count == Len(monitors)

\* Tree._get_screen_data(i_screen, ...): the rectangle of monitor i_screen
_get_screen_data(i_screen) == monitors[i_screen + 1]

\* The state a command works on: the tree, and the display server's state
\* that the requests of the command change.  `requests` collects the window
\* handles the command has sent a configure, map, change_attributes or
\* set_input_focus request for (the root window, always there, left out).
Running ==
    [root |-> root, xgeom |-> xgeom, xborder |-> xborder, xfocus |-> xfocus,
     failed |-> "", layout |-> FALSE, requests |-> {}]

\* A failed assert: the AssertionError leaves the event loop of main().
Fail(s, message) == [s EXCEPT !.failed = message]

\* The handles of the Window nodes named by a list of paths.
HandlesOf(r, paths) == [j \in 1..Len(paths) |-> NodeAt(r, paths[j]).xlib_window]

\* The loop of lines 412-415 without its configure request
ParkNothing(g, hs) == g

\* xlib_window.configure(**changes) for every handle of a set; a request for
\* a handle that is not a window of the server fails with BadWindow, which
\* the connection reports and drops: it changes nothing.
Park(g, hs) ==
    [h \in DOMAIN g |->
        IF h \in hs /\ _is_window_valid(h)
        THEN [g[h] EXCEPT !.x = INT16_MAX, !.y = INT16_MAX]
        ELSE g[h]]

---------------------------------------------------------------------------
(* The layout pass: Tree._update_window_positions, lines 433-486           *)

\* int(screen_extent * workspace.get_master_factor())
MasterExtent(extent, master_factor) == (extent * master_factor) \div 100

\* enumerate(stack_windows), without the reversed(...) of lines 459, 479
StackIndexForward(n, k) == k - 1

\* The i that enumerate(reversed(stack_windows)) gives the window at
\* position k of the n children of a Workspace.
StackIndex(n, k) == n - 1 - k

\* The configure request issued for the window at position k of a
\* Workspace's children `windows` on the monitor rectangle `rect`.
Slot(windows, k, rect, master_factor) ==
    LET n == Len(windows)
        n_stack == n - 1             \* len(stack_windows)
        i == StackIndex(n, k)
    IN  IF n_stack = 0
        THEN [x |-> rect.x, y |-> rect.y, width |-> rect.width,
              height |-> rect.height, border_width |-> 0]
        ELSE IF rect.width > rect.height
        THEN LET master_window_width == MasterExtent(rect.width, master_factor)
                 master_window_height == rect.height
                 stack_window_width == rect.width - master_window_width
                 stack_window_height == rect.height \div n_stack
             IN  IF k = n
                 THEN [x |-> rect.x, y |-> rect.y,
                       width |-> master_window_width - 2 * WINDOW_BORDER_WIDTH,
                       height |-> master_window_height - 2 * WINDOW_BORDER_WIDTH,
                       border_width |-> WINDOW_BORDER_WIDTH]
                 ELSE [x |-> rect.x + master_window_width,
                       y |-> rect.y + i * stack_window_height,
                       width |-> stack_window_width - 2 * WINDOW_BORDER_WIDTH,
                       height |-> stack_window_height - 2 * WINDOW_BORDER_WIDTH,
                       border_width |-> WINDOW_BORDER_WIDTH]
        ELSE LET master_window_width == rect.width
                 master_window_height == MasterExtent(rect.height, master_factor)
                 stack_window_width == rect.width \div n_stack
                 stack_window_height == rect.height - master_window_height
             IN  IF k = n
                 THEN [x |-> rect.x, y |-> rect.y,
                       width |-> master_window_width - 2 * WINDOW_BORDER_WIDTH,
                       height |-> master_window_height - 2 * WINDOW_BORDER_WIDTH,
                       border_width |-> WINDOW_BORDER_WIDTH]
                 ELSE [x |-> rect.x + i * stack_window_width,
                       y |-> rect.y + master_window_height,
                       width |-> stack_window_width - 2 * WINDOW_BORDER_WIDTH,
                       height |-> stack_window_height - 2 * WINDOW_BORDER_WIDTH,
                       border_width |-> WINDOW_BORDER_WIDTH]

RECURSIVE ConfigureFrom(_, _, _, _, _)
\* The configure requests for the windows of one Workspace, in the order the
\* source issues them: the master, then reversed(stack_windows).
ConfigureFrom(g, windows, k, rect, master_factor) ==
    IF k < 1 THEN g
    ELSE LET h == windows[k]
             g1 == IF _is_window_valid(h)
                   THEN [g EXCEPT ![h] = Slot(windows, k, rect, master_factor)]
                   ELSE g
         IN  ConfigureFrom(g1, windows, k - 1, rect, master_factor)

\* Lines 433-486 for one Screen
PlaceWorkspace(g, workspace, rect) ==
    LET windows == [j \in 1..Len(workspace.children) |->
                       workspace.children[j].xlib_window]
    IN  ConfigureFrom(g, windows, Len(windows), rect, workspace.master_factor)

\* Tree._update_window_focus without the loop of lines 490-493 that gives
\* every tracked window the default border colour
_update_window_focus_unreset(s) ==
    LET focused_window == search_active(s.root, <<>>, "Window")
        h == NodeAt(s.root, focused_window).xlib_window
    IN  IF focused_window # None /\ _is_window_valid(h)
        THEN [s EXCEPT !.xfocus = h,
                       !.xborder = [@ EXCEPT ![h] = WINDOW_BORDER_COLOR_FOCUSED],
                       !.requests = @ \cup {h}]
        ELSE [s EXCEPT !.xfocus = RootWindow]

\* Tree._update_window_focus
_update_window_focus(s) ==
    LET tracked == Range(HandlesOf(s.root, search_all(s.root, <<>>, "Window")))
        reset == [h \in DOMAIN s.xborder |->
                     IF h \in tracked /\ _is_window_valid(h)
                     THEN WINDOW_BORDER_COLOR_DEFAULT
                     ELSE s.xborder[h]]
        focused_window == search_active(s.root, <<>>, "Window")
        h == NodeAt(s.root, focused_window).xlib_window
    IN  IF focused_window # None /\ _is_window_valid(h)
        THEN [s EXCEPT !.xfocus = h,
                       !.xborder = [reset EXCEPT ![h] = WINDOW_BORDER_COLOR_FOCUSED],
                       !.requests = @ \cup tracked \cup {h}]
        ELSE [s EXCEPT !.xfocus = RootWindow, !.xborder = reset,
                       !.requests = @ \cup tracked]

RECURSIVE PlaceScreens(_, _, _)
\* The loop over enumerate(screens), lines 424-486
PlaceScreens(s, screens, i_screen) ==
    IF i_screen >= Len(screens) THEN s
    ELSE LET workspace == search_active(s.root, screens[i_screen + 1], "Workspace")
         IN  IF workspace = None THEN Fail(s, "No active workspace?")
             ELSE PlaceScreens(
                      [s EXCEPT !.xgeom = PlaceWorkspace(@, NodeAt(s.root, workspace),
                                                         _get_screen_data(i_screen)),
                                !.requests =
                                    @ \cup Range(HandlesOf(s.root,
                                                 search_all(s.root, workspace, "Window")))],
                      screens, i_screen + 1)

\* Tree._update_window_positions
_update_window_positions(s) ==
    LET windows_all == search_all(s.root, <<>>, "Window")
        window_ids == HandlesOf(s.root, windows_all)
        duplicates == {j \in 1..Len(window_ids) :
                          \E k \in 1..Len(window_ids) :
                              k # j /\ window_ids[k] = window_ids[j]}
        parked == [s EXCEPT !.xgeom = Park(@, Range(window_ids)),
                            !.requests = @ \cup Range(window_ids)]
        task == search_active(s.root, <<>>, "Task")
        screens == search_all(s.root, task, "Screen")
    IN  IF duplicates # {} THEN Fail(s, "Duplicate windows?")
        ELSE IF task = None THEN Fail(parked, "No active task?")
        ELSE IF Len(screens) = 0 THEN Fail(parked, "No screens found?")
        ELSE IF Len(screens) > _get_screen_count
             THEN Fail(parked, "Windows on non-existent screen?")
        ELSE LET placed == PlaceScreens(parked, screens, 0)
             IN  IF placed.failed # "" THEN placed
                 ELSE [_update_window_focus(placed) EXCEPT !.layout = TRUE]

---------------------------------------------------------------------------
(* The commands of class Tree                                              *)

\* Tree._create_task with a single Screen in place of one Screen for
\* each of range(self._get_screen_count()), line 280
_create_task_one_screen(r, name) ==
    LET workspaces == [i_workspace \in 1..N_WORKSPACES |-> Workspace]
        screen == [Screen EXCEPT !.children = workspaces]
        task == [Task(name) EXCEPT !.children = <<screen>>]
    IN  append(r, <<>>, task, FALSE)

\* Tree._create_task; the new Task is the last child of the root.
_create_task(r, name) ==
    LET workspaces == [i_workspace \in 1..N_WORKSPACES |-> Workspace]
        screen == [Screen EXCEPT !.children = workspaces]
        task == [Task(name) EXCEPT
                    !.children = [i_screen \in 1..(_get_screen_count) |-> screen]]
    IN  append(r, <<>>, task, FALSE)

\* Tree.get_all_task_names
get_all_task_names(r) ==
    LET tasks == search_all(r, <<>>, "Task")
    IN  [j \in 1..Len(tasks) |-> NodeAt(r, tasks[j]).name]

\* The loop `for task in tasks: if task.get_name() == name: task_new = task`
\* of _switch_task and _move_window_to_task: the last Task of that name.
FindTask(r, name) ==
    LET tasks == search_all(r, <<>>, "Task")
        hits == {j \in 1..Len(tasks) : NodeAt(r, tasks[j]).name = name}
    IN  IF hits = {} THEN None
        ELSE tasks[CHOOSE j \in hits : \A k \in hits : k <= j]

\* Tree._switch_task with line 301 exempting the Task of the default name
\* from the removal
_switch_task_keeping_default(s, name) ==
    LET task_previous == search_active(s.root, <<>>, "Task")
    IN  IF task_previous = None \/ name # NodeAt(s.root, task_previous).name
        THEN LET found == FindTask(s.root, name)
                 r1 == IF found = None THEN _create_task(s.root, name) ELSE s.root
                 task_new == IF found = None THEN <<Len(r1.children)>> ELSE found
                 empty == /\ task_previous # None
                          /\ NodeAt(r1, task_previous).name # TASK_NAME_DEFAULT
                          /\ Len(search_all(r1, task_previous, "Window")) = 0
                 r2 == IF empty THEN remove(r1, task_previous) ELSE r1
                 task_new2 == IF empty THEN AfterRemove(task_new, task_previous)
                              ELSE task_new
                 r3 == activate(r2, task_new2, TRUE)
             IN  _update_window_positions([s EXCEPT !.root = r3])
        ELSE s

\* Tree._switch_task with line 303 activating the Task without promote=True
_switch_task_unpromoted(s, name) ==
    LET task_previous == search_active(s.root, <<>>, "Task")
    IN  IF task_previous = None \/ name # NodeAt(s.root, task_previous).name
        THEN LET found == FindTask(s.root, name)
                 r1 == IF found = None THEN _create_task(s.root, name) ELSE s.root
                 task_new == IF found = None THEN <<Len(r1.children)>> ELSE found
                 empty == /\ task_previous # None
                          /\ Len(search_all(r1, task_previous, "Window")) = 0
                 r2 == IF empty THEN remove(r1, task_previous) ELSE r1
                 task_new2 == IF empty THEN AfterRemove(task_new, task_previous)
                              ELSE task_new
                 r3 == activate(r2, task_new2, FALSE)
             IN  _update_window_positions([s EXCEPT !.root = r3])
        ELSE s

\* Tree._switch_task
_switch_task(s, name) ==
    LET task_previous == search_active(s.root, <<>>, "Task")
    IN  IF task_previous = None \/ name # NodeAt(s.root, task_previous).name
        THEN LET found == FindTask(s.root, name)
                 r1 == IF found = None THEN _create_task(s.root, name) ELSE s.root
                 task_new == IF found = None THEN <<Len(r1.children)>> ELSE found
                 empty == /\ task_previous # None
                          /\ Len(search_all(r1, task_previous, "Window")) = 0
                 r2 == IF empty THEN remove(r1, task_previous) ELSE r1
                 task_new2 == IF empty THEN AfterRemove(task_new, task_previous)
                              ELSE task_new
                 r3 == activate(r2, task_new2, TRUE)
             IN  _update_window_positions([s EXCEPT !.root = r3])
        ELSE s

\* Tree._move_window_to_task
_move_window_to_task(s, name) ==
    LET task_previous == search_active(s.root, <<>>, "Task")
        window == search_active(s.root, <<>>, "Window")
    IN  IF task_previous = None THEN Fail(s, "No active task?")
        ELSE IF NodeAt(s.root, task_previous).name = name THEN s
        ELSE IF window = None THEN s
        ELSE LET r1 == remove(s.root, window)
                 found == FindTask(r1, name)
                 r2 == IF found = None THEN _create_task(r1, name) ELSE r1
                 task_new == IF found = None THEN <<Len(r2.children)>> ELSE found
                 workspace_new == search_active(r2, task_new, "Workspace")
             IN  IF workspace_new = None
                 THEN Fail([s EXCEPT !.root = r2], "Unable to find workspace?")
                 ELSE LET r3 == append(r2, workspace_new,
                                       NodeAt(s.root, window), TRUE)
                          r4 == activate(r3, task_previous, TRUE)
                      IN  _update_window_positions([s EXCEPT !.root = r4])

\* Tree._move_window_to_screen with the moved Window activated after line
\* 339, so that the active path follows it to the other Screen
_move_window_to_screen_following(s, offset) ==
    LET screen_previous == search_active(s.root, <<>>, "Screen")
        screen_new == get_sibling_by_offset(s.root, screen_previous, offset)
        window == search_active(s.root, <<>>, "Window")
    IN  IF screen_previous = None THEN Fail(s, "No active screen?")
        ELSE IF screen_new = screen_previous THEN s
        ELSE IF window = None THEN s
        ELSE LET r1 == remove(s.root, window)
                 workspace_new == search_active(r1, screen_new, "Workspace")
                 r2 == append(r1, workspace_new, NodeAt(s.root, window), TRUE)
             IN  IF workspace_new = None
                 THEN Fail([s EXCEPT !.root = r1], "Unable to find workspace?")
                 ELSE _update_window_positions(
                          [s EXCEPT !.root = activate(r2, workspace_new, FALSE)])

\* Tree._move_window_to_screen
_move_window_to_screen(s, offset) ==
    LET screen_previous == search_active(s.root, <<>>, "Screen")
        screen_new == get_sibling_by_offset(s.root, screen_previous, offset)
        window == search_active(s.root, <<>>, "Window")
    IN  IF screen_previous = None THEN Fail(s, "No active screen?")
        ELSE IF screen_new = screen_previous THEN s
        ELSE IF window = None THEN s
        ELSE LET r1 == remove(s.root, window)
                 workspace_new == search_active(r1, screen_new, "Workspace")
             IN  IF workspace_new = None
                 THEN Fail([s EXCEPT !.root = r1], "Unable to find workspace?")
                 ELSE _update_window_positions(
                          [s EXCEPT !.root = append(r1, workspace_new,
                                                    NodeAt(s.root, window), TRUE)])

\* Tree._switch_workspace with workspace_new.activate(promote=True) at
\* line 348
_switch_workspace_promoting(s, i_workspace) ==
    LET workspace == search_active(s.root, <<>>, "Workspace")
        workspace_new == get_sibling_by_index(s.root, workspace, i_workspace)
    IN  IF workspace = None THEN Fail(s, "No active workspace?")
        ELSE IF i_workspace = get_index(workspace) THEN s
        ELSE IF workspace_new = None THEN Fail(s, "Unable to find workspace?")
        ELSE _update_window_positions(
                 [s EXCEPT !.root = activate(@, workspace_new, TRUE)])

\* Tree._switch_workspace
_switch_workspace(s, i_workspace) ==
    LET workspace == search_active(s.root, <<>>, "Workspace")
        workspace_new == get_sibling_by_index(s.root, workspace, i_workspace)
    IN  IF workspace = None THEN Fail(s, "No active workspace?")
        ELSE IF i_workspace = get_index(workspace) THEN s
        ELSE IF workspace_new = None THEN Fail(s, "Unable to find workspace?")
        ELSE _update_window_positions(
                 [s EXCEPT !.root = activate(@, workspace_new, FALSE)])

\* Tree._move_window_to_workspace
_move_window_to_workspace(s, i_workspace) ==
    LET workspace == search_active(s.root, <<>>, "Workspace")
        window == search_active(s.root, <<>>, "Window")
    IN  IF workspace = None THEN Fail(s, "No active workspace?")
        ELSE IF i_workspace = get_index(workspace) THEN s
        ELSE IF window = None THEN s
        ELSE LET r1 == remove(s.root, window)
                 workspace_new == get_sibling_by_index(r1, workspace, i_workspace)
             IN  IF workspace_new = None
                 THEN Fail([s EXCEPT !.root = r1], "Unable to find workspace?")
                 ELSE _update_window_positions(
                          [s EXCEPT !.root = append(r1, workspace_new,
                                                    NodeAt(s.root, window), TRUE)])

\* Tree._handle_window without the loop of lines 367-369 that returns when
\* a Window of the tree already has the handle.
_handle_window_unsearched(s, xlib_window) ==
    LET workspace == search_active(s.root, <<>>, "Workspace")
    IN  IF ~_is_window_valid(xlib_window) THEN s
        ELSE IF workspace = None THEN Fail(s, "No active workspace?")
        ELSE LET r1 == append(s.root, workspace, Window(xlib_window), TRUE)
                 window_new == Append(workspace,
                                      Len(NodeAt(r1, workspace).children))
             IN  _update_window_positions(
                     [s EXCEPT !.root = activate(r1, window_new, FALSE)])

\* Tree._handle_window without the test of lines 364-365 that the handle is
\* a window of the display server
_handle_window_unvalidated(s, xlib_window) ==
    LET windows == search_all(s.root, <<>>, "Window")
        workspace == search_active(s.root, <<>>, "Workspace")
    IN  IF xlib_window \in Range(HandlesOf(s.root, windows)) THEN s
        ELSE IF workspace = None THEN Fail(s, "No active workspace?")
        ELSE LET r1 == append(s.root, workspace, Window(xlib_window), TRUE)
                 window_new == Append(workspace,
                                      Len(NodeAt(r1, workspace).children))
             IN  _update_window_positions(
                     [s EXCEPT !.root = activate(r1, window_new, FALSE)])

\* Tree._handle_window
_handle_window(s, xlib_window) ==
    LET windows == search_all(s.root, <<>>, "Window")
        workspace == search_active(s.root, <<>>, "Workspace")
    IN  IF ~_is_window_valid(xlib_window) THEN s
        ELSE IF xlib_window \in Range(HandlesOf(s.root, windows)) THEN s
        ELSE IF workspace = None THEN Fail(s, "No active workspace?")
        ELSE LET r1 == append(s.root, workspace, Window(xlib_window), TRUE)
                 window_new == Append(workspace,
                                      Len(NodeAt(r1, workspace).children))
             IN  _update_window_positions(
                     [s EXCEPT !.root = activate(r1, window_new, FALSE)])

RECURSIVE UnhandleLoop(_, _, _)
\* The loop of Tree._unhandle_window over the list search_all returned; the
\* nodes still to visit are found where the removals so far have left them.
UnhandleLoop(s, windows, xlib_window) ==
    IF windows = <<>> \/ s.failed # "" THEN s
    ELSE LET window == Head(windows)
         IN  IF NodeAt(s.root, window).xlib_window = xlib_window
             THEN UnhandleLoop(
                      _update_window_positions(
                          [s EXCEPT !.root = remove(@, window)]),
                      [j \in 1..(Len(windows) - 1) |->
                          AfterRemove(windows[j + 1], window)],
                      xlib_window)
             ELSE UnhandleLoop(s, Tail(windows), xlib_window)

\* Tree._unhandle_window searching the Workspace on the active path in place
\* of self.root (line 379)
_unhandle_window_active(s, xlib_window) ==
    UnhandleLoop(s,
                 search_all(s.root, search_active(s.root, <<>>, "Workspace"),
                            "Window"),
                 xlib_window)

\* Tree._unhandle_window
_unhandle_window(s, xlib_window) ==
    UnhandleLoop(s, search_all(s.root, <<>>, "Window"), xlib_window)

\* Tree._focus_window_by_offset
_focus_window_by_offset(s, offset) ==
    LET window == search_active(s.root, <<>>, "Window")
    IN  IF window = None THEN s
        ELSE LET window_new == get_sibling_by_offset(s.root, window, offset)
             IN  _update_window_focus(
                     [s EXCEPT !.root = activate(@, window_new, FALSE)])

\* Tree._promote_window with line 395 exchanging the focused Window and the
\* master in place of window_focused.activate(promote=True)
_promote_window_swapping(s) ==
    LET window_focused == search_active(s.root, <<>>, "Window")
        workspace == search_active(s.root, <<>>, "Workspace")
        w == NodeAt(s.root, workspace)
        n == Len(w.children)
        k == window_focused[Len(window_focused)]
        others == SelectSeq(Reversed(search_all(s.root, workspace, "Window")),
                            LAMBDA window : window # window_focused)
    IN  IF window_focused = None THEN s
        ELSE IF ~is_highest_index(s.root, window_focused)
        THEN _update_window_positions(
                 [s EXCEPT !.root = ReplaceAt(@, workspace,
                     [w EXCEPT !.children = [w.children EXCEPT
                                                ![k] = w.children[n],
                                                ![n] = w.children[k]],
                               !.i_active_child = n - 1])])
        ELSE IF workspace = None THEN Fail(s, "No active workspace?")
        ELSE IF others = <<>> THEN s
        ELSE _update_window_positions(
                 [s EXCEPT !.root = activate(@, Head(others), TRUE)])

\* Tree._promote_window with the loop of line 400 over the Windows in their
\* order, without reversed(...)
_promote_window_forward(s) ==
    LET window_focused == search_active(s.root, <<>>, "Window")
        workspace == search_active(s.root, <<>>, "Workspace")
        others == SelectSeq(search_all(s.root, workspace, "Window"),
                            LAMBDA window : window # window_focused)
    IN  IF window_focused = None THEN s
        ELSE IF ~is_highest_index(s.root, window_focused)
        THEN _update_window_positions(
                 [s EXCEPT !.root = activate(@, window_focused, TRUE)])
        ELSE IF workspace = None THEN Fail(s, "No active workspace?")
        ELSE IF others = <<>> THEN s
        ELSE _update_window_positions(
                 [s EXCEPT !.root = activate(@, Head(others), TRUE)])

\* Tree._promote_window
_promote_window(s) ==
    LET window_focused == search_active(s.root, <<>>, "Window")
        workspace == search_active(s.root, <<>>, "Workspace")
        others == SelectSeq(Reversed(search_all(s.root, workspace, "Window")),
                            LAMBDA window : window # window_focused)
    IN  IF window_focused = None THEN s
        ELSE IF ~is_highest_index(s.root, window_focused)
        THEN _update_window_positions(
                 [s EXCEPT !.root = activate(@, window_focused, TRUE)])
        ELSE IF workspace = None THEN Fail(s, "No active workspace?")
        ELSE IF others = <<>> THEN s
        ELSE _update_window_positions(
                 [s EXCEPT !.root = activate(@, Head(others), TRUE)])

\* Tree._adjust_master_factor
_adjust_master_factor(s, amount) ==
    LET workspace == search_active(s.root, <<>>, "Workspace")
        w == NodeAt(s.root, workspace)
    IN  IF workspace = None THEN Fail(s, "No active workspace?")
        ELSE _update_window_positions(
                 [s EXCEPT !.root = ReplaceAt(@, workspace,
                     [w EXCEPT !.master_factor =
                                   adjust_master_factor(@, amount)])])

\* Tree._focus_screen_by_offset
_focus_screen_by_offset(s, offset) ==
    LET screen == search_active(s.root, <<>>, "Screen")
        screen_new == get_sibling_by_offset(s.root, screen, offset)
    IN  IF screen = None THEN Fail(s, "No active screen?")
        ELSE _update_window_focus(
                 [s EXCEPT !.root = activate(@, screen_new, FALSE)])

---------------------------------------------------------------------------
(* Inputs                                                                  *)

\* The rectangle of the monitor with index i: landscape and portrait
\* monitors alternate, side by side.
MonitorRect(i) ==
    IF i % 2 = 0
    THEN [x |-> (i \div 2) * 3000, y |-> 0, width |-> 1920, height |-> 1080]
    ELSE [x |-> (i \div 2) * 3000 + 1920, y |-> 0, width |-> 1080, height |-> 1920]

\* What the display server may report as its monitors.
MonitorLayouts == {[i \in 1..k |-> MonitorRect(i - 1)] : k \in 0..MaxMonitors}

\* Task names the user types into the task switcher.
TaskNames == {TASK_NAME_DEFAULT, <<"w">>}

\* Names the task switcher may give the root window: a task name to switch
\* to, or the move marker followed by a task name.
RootNames ==
    TaskNames
        \cup {TASK_WINDOW_MOVE_MARKER \o name : name \in TaskNames \cup {<<"K", "w">>}}
        \cup {<<>>}

\* The amounts the two master-factor keys pass.
Amounts == {-MASTER_FACTOR_ADJUST_AMOUNT, MASTER_FACTOR_ADJUST_AMOUNT}

\* The offsets the focus and move keys pass.
Offsets == {-1, 1}

\* The workspace indices whose keys are pressed.
WorkspaceKeys == 0..Min(MaxWorkspaceKey, N_WORKSPACES - 1)

\* The handles of the windows clients create.
TaskHandles == 1..Min(MaxTaskWindows, MaxWindows)

\* A single monitor: landscape at the origin, portrait or square elsewhere.
SingleMonitors ==
    {<<[x |-> 0, y |-> 0, width |-> 1920, height |-> 1080]>>,
     <<[x |-> 1920, y |-> 120, width |-> 1080, height |-> 1920]>>,
     <<[x |-> 0, y |-> 1080, width |-> 1001, height |-> 1001]>>}

\* A single monitor so low that the stack of a Workspace of three windows
\* has rows of twice the border width.
SmallMonitors == {<<[x |-> 0, y |-> 0, width |-> 40, height |-> 8]>>}

---------------------------------------------------------------------------
(* The state machine                                                       *)

\* Tree.on_event for a PropertyNotify of the root window whose name is
\* `name` (lines 254-261)
on_event_PropertyNotify(s, name) ==
    IF name = <<>> THEN s
    ELSE IF StartsWith(name, TASK_WINDOW_MOVE_MARKER)
    THEN _move_window_to_task(s, LStrip(name, TASK_WINDOW_MOVE_MARKER))
    ELSE _switch_task(s, name)

\* The state a command leaves becomes the next state.
Becomes(s) ==
    /\ root' = s.root
    /\ xgeom' = s.xgeom
    /\ xborder' = s.xborder
    /\ xfocus' = s.xfocus
    /\ failed' = s.failed
    /\ UNCHANGED <<monitors, xvalid>>

\* Tree.__init__ on an empty root: _switch_task(TASK_NAME_DEFAULT)
Constructed ==
    _switch_task([root |-> Node,
                  xgeom |-> [h \in Handles |-> NoGeometry],
                  xborder |-> [h \in Handles |-> NoColor],
                  xfocus |-> RootWindow,
                  failed |-> "", layout |-> FALSE, requests |-> {}],
                 TASK_NAME_DEFAULT)

\* The window manager has started: the constructor has returned.
InitOn(layouts) ==
    /\ monitors \in layouts
    /\ xvalid = {}
    /\ Constructed.failed = ""
    /\ root = Constructed.root
    /\ xgeom = Constructed.xgeom
    /\ xborder = Constructed.xborder
    /\ xfocus = Constructed.xfocus
    /\ failed = ""

\* The handles of the Window nodes of the tree.
Tracked(r) == Range(HandlesOf(r, search_all(r, <<>>, "Window")))

\* A client creates a window.  A handle is not given to a new window while
\* the window manager still tracks the old one (its UnmapNotify precedes).
XCreateWindow(h) ==
    /\ failed = ""
    /\ h \notin xvalid
    /\ h \notin Tracked(root)
    /\ xvalid' = xvalid \cup {h}
    /\ xgeom' = [xgeom EXCEPT ![h] = ClientGeometry]
    /\ UNCHANGED <<root, monitors, xborder, xfocus, failed>>

\* A client destroys its window; the notification reaches the window
\* manager later.
XDestroyWindow(h) ==
    /\ failed = ""
    /\ h \in xvalid
    /\ xvalid' = xvalid \ {h}
    /\ xgeom' = [xgeom EXCEPT ![h] = NoGeometry]
    /\ xborder' = [xborder EXCEPT ![h] = NoColor]
    /\ xfocus' = IF xfocus = h THEN RootWindow ELSE xfocus
    /\ UNCHANGED <<root, monitors, failed>>

\* Monitors are plugged in or out.
MonitorsChange(m) ==
    /\ failed = ""
    /\ m # monitors
    /\ monitors' = m
    /\ UNCHANGED <<root, xvalid, xgeom, xborder, xfocus, failed>>

\* Tree.on_event, PropertyNotify on the root window
OnPropertyNotify(name) ==
    /\ failed = ""
    /\ Becomes(on_event_PropertyNotify(Running, name))

\* Tree.on_event, MapRequest
OnMapRequest(h) ==
    /\ failed = ""
    /\ Becomes(_handle_window(Running, h))

\* Tree.on_event, UnmapNotify
OnUnmapNotify(h) ==
    /\ failed = ""
    /\ Becomes(_unhandle_window(Running, h))

\* KEY_MASTER_FACTOR_DEC, KEY_MASTER_FACTOR_INC
KeyAdjustMasterFactor(amount) ==
    /\ failed = ""
    /\ Becomes(_adjust_master_factor(Running, amount))

\* KEY_PROMOTE_WINDOW
KeyPromoteWindow ==
    /\ failed = ""
    /\ Becomes(_promote_window(Running))

\* KEY_WINDOW_FOCUS_DEC, KEY_WINDOW_FOCUS_INC
KeyFocusWindow(offset) ==
    /\ failed = ""
    /\ Becomes(_focus_window_by_offset(Running, offset))

\* KEY_MOVE_WINDOW_TO_WORKSPACE_0 .. 3
KeyMoveWindowToWorkspace(i_workspace) ==
    /\ failed = ""
    /\ Becomes(_move_window_to_workspace(Running, i_workspace))

\* KEY_SWITCH_TO_WORKSPACE_0 .. 3
KeySwitchWorkspace(i_workspace) ==
    /\ failed = ""
    /\ Becomes(_switch_workspace(Running, i_workspace))

\* KEY_SCREEN_FOCUS_DEC, KEY_SCREEN_FOCUS_INC
KeyFocusScreen(offset) ==
    /\ failed = ""
    /\ Becomes(_focus_screen_by_offset(Running, offset))

\* KEY_MOVE_WINDOW_TO_PREVIOUS_SCREEN, KEY_MOVE_WINDOW_TO_NEXT_SCREEN
KeyMoveWindowToScreen(offset) ==
    /\ failed = ""
    /\ Becomes(_move_window_to_screen(Running, offset))

---------------------------------------------------------------------------
(* Specifications.  Spec is the whole machine.  Its state space is too     *)
(* large to search, so each of the others runs a group of its actions      *)
(* without any bound on the number of steps.                               *)

Init == InitOn(MonitorLayouts)

\* The life of the windows whose handles are in hs.
Clients(hs) ==
    \/ \E h \in hs : XCreateWindow(h)
    \/ \E h \in hs : OnMapRequest(h)
    \/ \E h \in hs : OnUnmapNotify(h)

Next ==
    \/ Clients(Handles)
    \/ \E h \in Handles : XDestroyWindow(h)
    \/ \E m \in MonitorLayouts : MonitorsChange(m)
    \/ \E name \in RootNames : OnPropertyNotify(name)
    \/ \E amount \in Amounts : KeyAdjustMasterFactor(amount)
    \/ KeyPromoteWindow
    \/ \E offset \in Offsets : KeyFocusWindow(offset)
    \/ \E i_workspace \in WorkspaceKeys : KeyMoveWindowToWorkspace(i_workspace)
    \/ \E i_workspace \in WorkspaceKeys : KeySwitchWorkspace(i_workspace)
    \/ \E offset \in Offsets : KeyFocusScreen(offset)
    \/ \E offset \in Offsets : KeyMoveWindowToScreen(offset)

Spec == Init /\ [][Next]_vars

\* Tasks, windows that come and go, monitors that are plugged in and out.
NextTasks ==
    \/ Clients(TaskHandles)
    \/ \E h \in TaskHandles : XDestroyWindow(h)
    \/ \E m \in MonitorLayouts : MonitorsChange(m)
    \/ \E name \in RootNames : OnPropertyNotify(name)

SpecTasks == Init /\ [][NextTasks]_vars

\* Tasks and workspaces on one monitor.
NextDesks ==
    \/ Clients(TaskHandles)
    \/ \E name \in RootNames : OnPropertyNotify(name)
    \/ \E i_workspace \in WorkspaceKeys : KeySwitchWorkspace(i_workspace)
    \/ \E i_workspace \in WorkspaceKeys : KeyMoveWindowToWorkspace(i_workspace)

SpecDesks == InitOn({<<MonitorRect(0)>>}) /\ [][NextDesks]_vars

\* The master factors of the workspaces of one task on one monitor.
NextFactor ==
    \/ Clients({1})
    \/ \E amount \in Amounts : KeyAdjustMasterFactor(amount)
    \/ \E i_workspace \in WorkspaceKeys : KeySwitchWorkspace(i_workspace)

SpecFactor == InitOn({<<MonitorRect(0)>>}) /\ [][NextFactor]_vars

\* The layout of one workspace that fills up, on a monitor of any shape.
NextLayout ==
    \/ \E h \in Handles : XCreateWindow(h)
    \/ \E h \in Handles : OnMapRequest(h)
    \/ \E amount \in Amounts : KeyAdjustMasterFactor(amount)
    \/ KeyPromoteWindow

SpecLayout == InitOn(SingleMonitors) /\ [][NextLayout]_vars

\* The same layout on a small monitor.
SpecSmall == InitOn(SmallMonitors) /\ [][NextLayout]_vars

\* The windows of one workspace: mapped, focused, promoted, withdrawn and
\* destroyed.
NextStack ==
    \/ Clients(Handles)
    \/ \E h \in Handles : XDestroyWindow(h)
    \/ KeyPromoteWindow
    \/ \E offset \in Offsets : KeyFocusWindow(offset)

SpecStack == InitOn({<<MonitorRect(0)>>}) /\ [][NextStack]_vars

\* One task on as many monitors as there may be: windows, workspaces and
\* screens.
NextScreens ==
    \/ Clients(TaskHandles)
    \/ \E i_workspace \in WorkspaceKeys : KeySwitchWorkspace(i_workspace)
    \/ \E offset \in Offsets : KeyFocusScreen(offset)
    \/ \E offset \in Offsets : KeyMoveWindowToScreen(offset)

SpecScreens ==
    InitOn({[i \in 1..MaxMonitors |-> MonitorRect(i - 1)]}) /\ [][NextScreens]_vars

\* One task on as many monitors as there may be: windows and the focus keys
\* for windows and screens.
NextFocus ==
    \/ Clients(Handles)
    \/ \E offset \in Offsets : KeyFocusWindow(offset)
    \/ \E offset \in Offsets : KeyFocusScreen(offset)

SpecFocus ==
    InitOn({[i \in 1..MaxMonitors |-> MonitorRect(i - 1)]}) /\ [][NextFocus]_vars

---------------------------------------------------------------------------
(* Properties                                                              *)

\* The Window nodes of a tree, and the tree's Window handles in pre-order.
WindowsOf(r) == search_all(r, <<>>, "Window")
WindowIds(r) == HandlesOf(r, WindowsOf(r))

\* No two Window nodes of the tree r carry the same handle.
Distinct(r) ==
    \A j, k \in 1..Len(WindowIds(r)) :
        j # k => WindowIds(r)[j] # WindowIds(r)[k]

\* The Task node above a node of the tree.
TaskOf(path) == SubSeq(path, 1, 1)

\* C1: whatever events arrive, no two Window nodes of the tree carry the
\* same window handle, and the assert "Duplicate windows?" of
\* _update_window_positions never fails.
C1_NoDuplicateWindows ==
    /\ Distinct(root)
    /\ failed # "Duplicate windows?"

\* C1's case: two windows are tracked, one of them in a Task that is not
\* the active one, and a MapRequest for that window arrives again.
C1_Witness ==
    /\ failed = ""
    /\ Len(WindowsOf(root)) >= 2
    /\ \E w \in Range(WindowsOf(root)) :
          /\ TaskOf(w) # search_active(root, <<>>, "Task")
          /\ NodeAt(root, w).xlib_window \in xvalid
          /\ _handle_window(Running, NodeAt(root, w).xlib_window).root = root

\* C2: at all times after construction, following the active index from
\* the root reaches a Task, then a Screen, then a Workspace, and none of
\* the asserts about a missing active Task, Screen or Workspace fails.
C2_ActiveChain ==
    /\ search_active(root, <<>>, "Task") # None
    /\ search_active(root, <<>>, "Screen") # None
    /\ search_active(root, <<>>, "Workspace") # None
    /\ failed \notin {"No active task?", "No active screen?",
                      "No active workspace?", "Unable to find workspace?"}

\* The Workspace nodes of a tree.
WorkspacesOf(r) == search_all(r, <<>>, "Workspace")

\* Deltas of either sign, smaller and larger than the whole range.
AnyAmounts ==
    {-2 * MASTER_FACTOR_MAX, -MASTER_FACTOR_ADJUST_AMOUNT, -1, 0, 1,
     MASTER_FACTOR_ADJUST_AMOUNT, 2 * MASTER_FACTOR_MAX}

\* master_factor lies in [MASTER_FACTOR_MIN, MASTER_FACTOR_MAX].
InRange(master_factor) ==
    MASTER_FACTOR_MIN <= master_factor /\ master_factor <= MASTER_FACTOR_MAX

\* C3: the master_factor of every Workspace is within [0.1, 0.9] in every
\* reachable state; and _adjust_master_factor, for a delta of any sign and
\* magnitude, keeps it there and changes the master_factor of the Workspace
\* on the active path only.
C3_MasterFactor ==
    /\ \A w \in Range(WorkspacesOf(root)) : InRange(NodeAt(root, w).master_factor)
    /\ \A amount \in AnyAmounts :
          LET after == _adjust_master_factor(Running, amount)
              active == search_active(root, <<>>, "Workspace")
          IN  /\ WorkspacesOf(after.root) = WorkspacesOf(root)
              /\ \A w \in Range(WorkspacesOf(root)) :
                    LET before_w == NodeAt(root, w).master_factor
                        after_w == NodeAt(after.root, w).master_factor
                    IN  /\ InRange(after_w)
                        /\ w # active => after_w = before_w
                        /\ w = active /\ InRange(before_w + amount)
                              => after_w = before_w + amount
                        /\ w = active /\ before_w + amount > MASTER_FACTOR_MAX
                              => after_w = MASTER_FACTOR_MAX
                        /\ w = active /\ before_w + amount < MASTER_FACTOR_MIN
                              => after_w = MASTER_FACTOR_MIN

\* C3's case: the active Workspace is not the first one and is at the upper
\* limit, another Workspace is at the lower limit, and a further increase
\* leaves the tree as it is.
C3_Witness ==
    LET active == search_active(root, <<>>, "Workspace")
    IN  /\ failed = ""
        /\ active # None
        /\ get_index(active) # 0
        /\ NodeAt(root, active).master_factor = MASTER_FACTOR_MAX
        /\ \E w \in Range(WorkspacesOf(root)) :
              NodeAt(root, w).master_factor = MASTER_FACTOR_MIN
        /\ _adjust_master_factor(Running, MASTER_FACTOR_ADJUST_AMOUNT).root = root

\* The Task nodes of a tree, and those of them called `name`.
TasksOf(r) == search_all(r, <<>>, "Task")
TasksNamed(r, name) == {t \in Range(TasksOf(r)) : NodeAt(r, t).name = name}

\* Names a command may be given: the task names and one more.
AnyNames == TaskNames \cup {<<"K", "w">>}

\* The names no Task of the tree carries.
UnseenNames == {name \in AnyNames : TasksNamed(root, name) = {}}

\* The tree r has exactly one Task called `name`; it has one Screen for each
\* monitor reported now, and each Screen has N_WORKSPACES Workspaces.
HasNewTask(r, name) ==
    /\ Cardinality(TasksNamed(r, name)) = 1
    /\ \A t \in TasksNamed(r, name) :
          /\ Len(NodeAt(r, t).children) = _get_screen_count
          /\ \A i \in 1..Len(NodeAt(r, t).children) :
                LET screen == NodeAt(r, t).children[i]
                IN  /\ screen.kind = "Screen"
                    /\ Len(screen.children) = N_WORKSPACES
                    /\ \A j \in 1..N_WORKSPACES :
                          screen.children[j].kind = "Workspace"

\* The Window nodes below the Tasks called `name`.
WindowsIn(r, name) ==
    UNION {Range(search_all(r, t, "Window")) : t \in TasksNamed(r, name)}

\* Every Task (the children of the root) that exists before and after a step
\* keeps its number of Screens.
ScreensKept ==
    \A j \in DOMAIN root.children : \A k \in DOMAIN root'.children :
        root.children[j].name = root'.children[k].name
            => Len(root.children[j].children) = Len(root'.children[k].children)

\* _switch_task with a name no Task carries creates one Task with a Screen
\* for each monitor, N_WORKSPACES Workspaces in each and no Window.
SwitchCreates ==
    \A name \in UnseenNames :
        LET after == _switch_task(Running, name)
        IN  HasNewTask(after.root, name) /\ WindowsIn(after.root, name) = {}

\* C4 as stated: _switch_task and _move_window_to_task with a name no Task
\* carries each create one Task with a Screen for each monitor reported
\* at that instant, N_WORKSPACES Workspaces in each Screen and no Window in
\* them; a later change of the monitor count leaves the number of Screens
\* of an existing Task as it is.
C4_AsStated ==
    /\ [](failed = "" =>
            /\ SwitchCreates
            /\ \A name \in UnseenNames :
                  LET after == _move_window_to_task(Running, name)
                  IN  /\ HasNewTask(after.root, name)
                      /\ WindowsIn(after.root, name) = {})
    /\ [][ScreensKept]_vars

\* C4: _switch_task with a name no Task carries creates one Task with a
\* Screen for each monitor reported at that instant, N_WORKSPACES Workspaces
\* in each Screen and no Window.  _move_window_to_task with such a name
\* creates no Task when no Window is on the active path; when one is, it
\* creates one such Task, whose only Window is the moved one, the only
\* child of the first Workspace of its first Screen (with no monitor the
\* Task has no Screen and the Window is in no Task).  A later change of the
\* monitor count leaves the number of Screens of an existing Task as it is.
C4_TaskCreation ==
    /\ [](failed = "" =>
            /\ SwitchCreates
            /\ \A name \in UnseenNames :
                  LET after == _move_window_to_task(Running, name)
                      window == search_active(root, <<>>, "Window")
                  IN  IF window = None THEN after.root = root
                      ELSE /\ HasNewTask(after.root, name)
                           /\ \A t \in TasksNamed(after.root, name) :
                                 IF _get_screen_count = 0
                                 THEN /\ WindowsIn(after.root, name) = {}
                                      /\ NodeAt(root, window).xlib_window
                                             \notin Tracked(after.root)
                                 ELSE /\ WindowsIn(after.root, name) = {t \o <<1, 1, 1>>}
                                      /\ NodeAt(after.root, t \o <<1, 1, 1>>)
                                             = NodeAt(root, window))
    /\ [][ScreensKept]_vars

\* C4's case: two monitors are reported, a Task made on one monitor is
\* still there, a Window is on the active path, and moving it to a Task of
\* an unseen name makes a Task of two Screens.
C4_Witness ==
    /\ failed = ""
    /\ _get_screen_count = 2
    /\ \E t \in Range(TasksOf(root)) : Len(NodeAt(root, t).children) = 1
    /\ search_active(root, <<>>, "Window") # None
    /\ \E name \in UnseenNames :
          LET after == _move_window_to_task(Running, name)
          IN  /\ after.failed = ""
              /\ \E t \in TasksNamed(after.root, name) :
                    /\ Len(NodeAt(after.root, t).children) = 2
                    /\ Len(search_all(after.root, t, "Window")) = 1

\* The name of the active Task of a tree.
ActiveTaskName(r) == NodeAt(r, search_active(r, <<>>, "Task")).name

\* C5: _switch_task with a name other than the active Task's: the Task that
\* was active is removed from the root's children when it holds no Window
\* (whatever its name) and stays there with its subtree unchanged when it
\* holds one; the Task of the given name is the active Task afterwards.
\* _switch_task with the active Task's own name changes nothing.
C5_SwitchTask ==
    failed = "" =>
        \A name \in AnyNames :
            LET after == _switch_task(Running, name)
                task_previous == search_active(root, <<>>, "Task")
                previous == NodeAt(root, task_previous)
            IN  /\ task_previous # None
                /\ IF name = previous.name THEN after = Running
                   ELSE /\ IF Len(search_all(root, task_previous, "Window")) = 0
                           THEN /\ TasksNamed(after.root, previous.name) = {}
                                /\ previous \notin Range(after.root.children)
                           ELSE previous \in Range(after.root.children)
                        /\ search_active(after.root, <<>>, "Task") # None
                        /\ ActiveTaskName(after.root) = name

\* C5's case: the active Task is the default one and holds no Window,
\* another Task holds one, and the switch to that Task removes the default
\* Task.
C5_Witness ==
    /\ failed = ""
    /\ ActiveTaskName(root) = TASK_NAME_DEFAULT
    /\ WindowsIn(root, TASK_NAME_DEFAULT) = {}
    /\ WindowsIn(root, <<"w">>) # {}
    /\ LET after == _switch_task(Running, <<"w">>)
       IN  /\ after.failed = ""
           /\ TasksNamed(after.root, TASK_NAME_DEFAULT) = {}
           /\ ActiveTaskName(after.root) = <<"w">>

\* A configure request: position, content size and border width.
Geometry(x, y, width, height, border_width) ==
    [x |-> x, y |-> y, width |-> width, height |-> height,
     border_width |-> border_width]

\* C6: the layout pass gives the windows W[0..n-1] of a Workspace on the
\* monitor rectangle (x, y, width, height), with border b and master
\* factor f: for n = 1 the whole rectangle and no border; for n > 1 and
\* width > height the master W[n-1] at (x, y) with content size
\* (floor(width*f) - 2b, height - 2b) and the i-th stack window, in the
\* order W[n-2], ..., W[0], at (x + floor(width*f), y + i*(height // (n-1)))
\* with content size (width - floor(width*f) - 2b, height // (n-1) - 2b);
\* for n > 1 and width <= height the master at (x, y) with content size
\* (width - 2b, floor(height*f) - 2b) and the i-th stack window at
\* (x + i*(width // (n-1)), y + floor(height*f)) with content size
\* (width // (n-1) - 2b, height - floor(height*f) - 2b); all with border b.
C6_Layout ==
    failed = "" =>
        LET workspace == NodeAt(root, search_active(root, <<>>, "Workspace"))
            n == Len(workspace.children)
            W == [p \in 0..(n - 1) |-> workspace.children[p + 1].xlib_window]
            x == monitors[1].x
            y == monitors[1].y
            width == monitors[1].width
            height == monitors[1].height
            b == WINDOW_BORDER_WIDTH
            fw == (width * workspace.master_factor) \div 100
            fh == (height * workspace.master_factor) \div 100
        IN  /\ n = 1 => xgeom[W[0]] = Geometry(x, y, width, height, 0)
            /\ n > 1 /\ width > height =>
                  /\ xgeom[W[n - 1]] =
                         Geometry(x, y, fw - 2 * b, height - 2 * b, b)
                  /\ \A i \in 0..(n - 2) :
                        xgeom[W[n - 2 - i]] =
                            Geometry(x + fw, y + i * (height \div (n - 1)),
                                     width - fw - 2 * b,
                                     (height \div (n - 1)) - 2 * b, b)
            /\ n > 1 /\ width <= height =>
                  /\ xgeom[W[n - 1]] =
                         Geometry(x, y, width - 2 * b, fh - 2 * b, b)
                  /\ \A i \in 0..(n - 2) :
                        xgeom[W[n - 2 - i]] =
                            Geometry(x + i * (width \div (n - 1)), y + fh,
                                     (width \div (n - 1)) - 2 * b,
                                     height - fh - 2 * b, b)

\* C6's case: three windows on a monitor that is as wide as it is high and
\* not at the origin, a master factor that does not divide the height
\* evenly, and a master that is not the window mapped last.
C6_Witness ==
    LET workspace == NodeAt(root, search_active(root, <<>>, "Workspace"))
    IN  /\ failed = ""
        /\ Len(workspace.children) = 3
        /\ monitors[1].width = monitors[1].height
        /\ monitors[1].y # 0
        /\ (monitors[1].height * workspace.master_factor) % 100 # 0
        /\ workspace.children[3].xlib_window = 1
        /\ workspace.children[1].xlib_window = 3
        /\ xgeom[1].height + 2 * WINDOW_BORDER_WIDTH
               + xgeom[2].height + 2 * WINDOW_BORDER_WIDTH = monitors[1].height

\* The Window nodes that are children of the active Workspace of a Screen
\* of the active Task.
Shown(r) ==
    {w \in Range(WindowsOf(r)) :
        /\ TaskOf(w) = search_active(r, <<>>, "Task")
        /\ ParentOf(w) = search_active(r, SubSeq(w, 1, 2), "Workspace")}

\* The position of a geometry lies inside a monitor rectangle.
OnScreen(g) ==
    \E i \in 1..Len(monitors) :
        /\ monitors[i].x <= g.x /\ g.x < monitors[i].x + monitors[i].width
        /\ monitors[i].y <= g.y /\ g.y < monitors[i].y + monitors[i].height

\* The position of a geometry is the off-screen one.
Parked(g) == g.x = INT16_MAX /\ g.y = INT16_MAX

\* C7: after every processed event a tracked window has a position inside a
\* monitor rectangle if it is a child of the active Workspace of a Screen
\* of the active Task, and is parked at (INT16_MAX, INT16_MAX) if it is
\* not (it is in another Task or in a Workspace that is not active).
C7_ShownOrParked ==
    failed = "" =>
        \A w \in Range(WindowsOf(root)) :
            LET h == NodeAt(root, w).xlib_window
            IN  h \in xvalid =>
                    IF w \in Shown(root)
                    THEN OnScreen(xgeom[h]) /\ ~Parked(xgeom[h])
                    ELSE Parked(xgeom[h]) /\ ~OnScreen(xgeom[h])

\* C7's case: one window is shown; another, which was shown before and has
\* the size the layout gave it, sits in a Workspace of the active Task that
\* is not the active one, and is parked.
C7_Witness ==
    /\ failed = ""
    /\ \E v, w \in Range(WindowsOf(root)) :
          /\ v \in Shown(root)
          /\ OnScreen(xgeom[NodeAt(root, v).xlib_window])
          /\ w \notin Shown(root)
          /\ TaskOf(w) = TaskOf(v)
          /\ xgeom[NodeAt(root, w).xlib_window].width > 1
          /\ Parked(xgeom[NodeAt(root, w).xlib_window])

\* The number of Window nodes of a tree that carry the handle h.
Copies(r, h) == Cardinality({j \in 1..Len(WindowIds(r)) : WindowIds(r)[j] = h})

\* C8: a MapRequest for a handle that is not a window of the display server,
\* or that a Window of the tree already carries, leaves the tree unchanged;
\* for any other handle one Window is appended as the last child of the
\* Workspace on the active path, after the Windows already there in their
\* order, and it is the Window on the active path afterwards.
C8_HandleWindow ==
    failed = "" =>
        \A h \in Handles :
            LET after == _handle_window(Running, h)
                workspace == search_active(root, <<>>, "Workspace")
            IN  IF h \notin xvalid \/ h \in Tracked(root)
                THEN after.root = root
                ELSE /\ workspace # None
                     /\ Copies(after.root, h) = 1
                     /\ NodeAt(after.root, workspace).children
                            = Append(NodeAt(root, workspace).children, Window(h))
                     /\ search_active(after.root, <<>>, "Workspace") = workspace
                     /\ search_active(after.root, <<>>, "Window")
                            = Append(workspace,
                                     Len(NodeAt(root, workspace).children) + 1)
                     /\ Len(WindowIds(after.root)) = Len(WindowIds(root)) + 1

\* C8's case: the Workspace on the active path holds a window whose handle
\* is no longer a window of the display server, a second handle is valid
\* and not tracked, and the MapRequest for it appends its Window.
C8_Witness ==
    LET workspace == search_active(root, <<>>, "Workspace")
    IN  /\ failed = ""
        /\ Len(NodeAt(root, workspace).children) = 1
        /\ NodeAt(root, workspace).children[1].xlib_window \notin xvalid
        /\ \E h \in xvalid \ Tracked(root) :
              LET after == _handle_window(Running, h)
              IN  /\ after.failed = ""
                  /\ Len(NodeAt(after.root, workspace).children) = 2
                  /\ NodeAt(after.root, workspace).children[2] = Window(h)

\* C9: after an UnmapNotify for the handle h no Window of the tree carries
\* h, in whichever Task, Screen or Workspace it was, active or not; every
\* Workspace holds the Windows it held, less that one, in their order; and
\* for a handle no Window carries the tree is unchanged.
C9_UnhandleWindow ==
    failed = "" =>
        \A h \in Handles :
            LET after == _unhandle_window(Running, h)
            IN  /\ Copies(after.root, h) = 0
                /\ h \notin Tracked(root) => after.root = root
                /\ WorkspacesOf(after.root) = WorkspacesOf(root)
                /\ \A w \in Range(WorkspacesOf(root)) :
                      NodeAt(after.root, w).children
                          = SelectSeq(NodeAt(root, w).children,
                                      LAMBDA window : window.xlib_window # h)

\* C9's case: a Workspace that is not on the active path holds two windows,
\* and the UnmapNotify for the first of them leaves the second.
C9_Witness ==
    /\ failed = ""
    /\ \E w \in Range(WorkspacesOf(root)) :
          /\ w # search_active(root, <<>>, "Workspace")
          /\ Len(NodeAt(root, w).children) = 2
          /\ LET after == _unhandle_window(Running,
                              NodeAt(root, w).children[1].xlib_window)
             IN  /\ after.failed = ""
                 /\ NodeAt(after.root, w).children
                        = <<NodeAt(root, w).children[2]>>

\* C10: a property change of the root window whose name is the move marker
\* followed by a task name N is the command _move_window_to_task with
\* exactly N, whatever characters N begins with; with a name that does not
\* begin with the marker it is _switch_task with the whole name.
C10_RootNameCommand ==
    failed = "" =>
        /\ \A N \in AnyNames :
              on_event_PropertyNotify(Running, TASK_WINDOW_MOVE_MARKER \o N)
                  = _move_window_to_task(Running, N)
        /\ \A name \in AnyNames :
              on_event_PropertyNotify(Running, name) = _switch_task(Running, name)

\* The last child of the node at `path` exists and is the active child.
LastIsActive(r, path) ==
    LET node == NodeAt(r, path)
    IN  /\ Len(node.children) > 0
        /\ PyIndex(node.children, node.i_active_child) = Len(node.children)

\* C11: _move_window_to_task with a name other than the active Task's and a
\* Window w on the active path: afterwards w is the last child and the
\* active child of the active Workspace of the active Screen of the Task of
\* that name (created if there was none), w is nowhere else in the tree, and
\* the Task that was active is still the active Task.  With no Window on
\* the active path, or with the active Task's name, the tree is unchanged.
C11_MoveWindowToTask ==
    failed = "" =>
        \A name \in AnyNames :
            LET after == _move_window_to_task(Running, name)
                window == search_active(root, <<>>, "Window")
            IN  IF window = None \/ name = ActiveTaskName(root)
                THEN after.root = root
                ELSE /\ Cardinality(TasksNamed(after.root, name)) = 1
                     /\ \A t \in TasksNamed(after.root, name) :
                           LET screen == search_active(after.root, t, "Screen")
                               workspace == search_active(after.root, t, "Workspace")
                           IN  /\ screen # None
                               /\ workspace # None
                               /\ ParentOf(workspace) = screen
                               /\ LastIsActive(after.root, workspace)
                               /\ NodeAt(after.root, workspace).children[
                                      Len(NodeAt(after.root, workspace).children)]
                                      = NodeAt(root, window)
                     /\ Copies(after.root, NodeAt(root, window).xlib_window) = 1
                     /\ ActiveTaskName(after.root) = ActiveTaskName(root)

\* C12: _promote_window with the focused Window w not the master of its
\* Workspace: afterwards w is the last child and still the focused Window,
\* the former master is the child just before it, and the other Windows of
\* the Workspace keep their order.
C12_PromoteStackWindow ==
    failed = "" =>
        LET window_focused == search_active(root, <<>>, "Window")
            workspace == ParentOf(window_focused)
            before == NodeAt(root, workspace).children
            n == Len(before)
            k == window_focused[Len(window_focused)]
            after == _promote_window(Running)
            children == NodeAt(after.root, workspace).children
        IN  window_focused # None /\ k # n =>
                /\ Len(children) = n
                /\ children[n] = before[k]
                /\ search_active(after.root, <<>>, "Window") = Append(workspace, n)
                /\ children[n - 1] = before[n]
                /\ DeleteAt(children, n) = DeleteAt(before, k)

\* C12's case: three windows, the focus on the first child, and the
\* promotion puts it after the two others.
C12_Witness ==
    LET window_focused == search_active(root, <<>>, "Window")
        workspace == ParentOf(window_focused)
        before == NodeAt(root, workspace).children
    IN  /\ failed = ""
        /\ window_focused # None
        /\ Len(before) = 3
        /\ window_focused[Len(window_focused)] = 1
        /\ NodeAt(_promote_window(Running).root, workspace).children
               = <<before[2], before[3], before[1]>>

\* C13: _promote_window with the focused Window the master of a Workspace
\* of n >= 2 Windows: the child just before the master becomes the last
\* child and the focused Window, the old master is then the child just
\* before it, and the other Windows keep their order; a second
\* _promote_window gives back the tree there was.  With n = 1 nothing
\* changes.
C13_PromoteMaster ==
    failed = "" =>
        LET window_focused == search_active(root, <<>>, "Window")
            workspace == ParentOf(window_focused)
            before == NodeAt(root, workspace).children
            n == Len(before)
            once == _promote_window(Running)
            twice == _promote_window([once EXCEPT !.layout = FALSE])
            children == NodeAt(once.root, workspace).children
        IN  window_focused # None /\ window_focused[Len(window_focused)] = n =>
                IF n = 1 THEN once = Running
                ELSE /\ once.failed = ""
                     /\ children = SubSeq(before, 1, n - 2)
                                       \o <<before[n], before[n - 1]>>
                     /\ search_active(once.root, <<>>, "Window")
                            = Append(workspace, n)
                     /\ twice.failed = ""
                     /\ twice.root = root

\* C13's case: three windows with the focus on the master; one promotion
\* exchanges the master and the top of the stack, and the window at the
\* bottom of the stack stays where it is.
C13_Witness ==
    LET window_focused == search_active(root, <<>>, "Window")
        workspace == ParentOf(window_focused)
        before == NodeAt(root, workspace).children
    IN  /\ failed = ""
        /\ window_focused # None
        /\ Len(before) = 3
        /\ window_focused[Len(window_focused)] = 3
        /\ NodeAt(_promote_window(Running).root, workspace).children
               = <<before[1], before[3], before[2]>>

\* The Screen nodes of a tree.
ScreensOf(r) == search_all(r, <<>>, "Screen")

\* C14: _switch_workspace(i) with 0 <= i < N_WORKSPACES: afterwards the
\* active Workspace of the active Screen is the one at index i; every
\* Screen has its Workspaces in the order it had, every Workspace the
\* Windows it had, and every Screen but the active one the active Workspace
\* it had.  With the index of the active Workspace nothing changes.
C14_SwitchWorkspace ==
    failed = "" =>
        \A i \in 0..(N_WORKSPACES - 1) :
            LET after == _switch_workspace(Running, i)
                screen == search_active(root, <<>>, "Screen")
                workspace == search_active(root, <<>>, "Workspace")
            IN  IF i = get_index(workspace) THEN after = Running
                ELSE /\ search_active(after.root, <<>>, "Screen") = screen
                     /\ search_active(after.root, <<>>, "Workspace")
                            = Append(screen, i + 1)
                     /\ ScreensOf(after.root) = ScreensOf(root)
                     /\ \A p \in Range(ScreensOf(root)) :
                           /\ NodeAt(after.root, p).children = NodeAt(root, p).children
                           /\ p # screen =>
                                 NodeAt(after.root, p).i_active_child
                                     = NodeAt(root, p).i_active_child

\* C14's case: the Task has two Screens, the Screen that is not the active
\* one shows its second Workspace and holds a window, the active Screen
\* holds a window in its first Workspace, and a switch to the last
\* Workspace is made.
C14_Witness ==
    LET screen == search_active(root, <<>>, "Screen")
    IN  /\ failed = ""
        /\ \E p \in Range(ScreensOf(root)) :
              /\ p # screen
              /\ NodeAt(root, p).i_active_child = 1
              /\ search_all(root, p, "Window") # <<>>
        /\ search_all(root, screen, "Window") # <<>>
        /\ NodeAt(root, screen).i_active_child = 0
        /\ search_active(_switch_workspace(Running, N_WORKSPACES - 1).root,
                         <<>>, "Workspace") = Append(screen, N_WORKSPACES)

\* Offsets of either sign, some of them beyond the number of siblings.
AnyOffsets == -3..3

\* C15: _move_window_to_screen(offset) with a Window w on the active path:
\* the target is the Screen at index (active index + offset) mod the number
\* of Screens of the active Task; when it is not the active Screen, w
\* becomes the last and the active child of the target's active Workspace
\* and leaves its former Workspace, and the active Screen stays the active
\* one; when it is the active Screen, or there is no such Window, the tree
\* is unchanged.
C15_MoveWindowToScreen ==
    failed = "" =>
        \A offset \in AnyOffsets :
            LET after == _move_window_to_screen(Running, offset)
                screen == search_active(root, <<>>, "Screen")
                task == ParentOf(screen)
                count == Len(NodeAt(root, task).children)
                target == Append(task, ((get_index(screen) + offset) % count) + 1)
                window == search_active(root, <<>>, "Window")
                workspace_new == search_active(root, target, "Workspace")
            IN  IF window = None \/ target = screen THEN after.root = root
                ELSE /\ NodeAt(after.root, workspace_new).children
                            = Append(NodeAt(root, workspace_new).children,
                                     NodeAt(root, window))
                     /\ LastIsActive(after.root, workspace_new)
                     /\ NodeAt(after.root, ParentOf(window)).children
                            = DeleteAt(NodeAt(root, ParentOf(window)).children,
                                       window[Len(window)])
                     /\ Copies(after.root, NodeAt(root, window).xlib_window) = 1
                     /\ search_active(after.root, <<>>, "Screen") = screen
                     /\ search_active(after.root, target, "Workspace") = workspace_new

\* C15's case: the second Screen is the active one and holds two windows,
\* the first Screen shows its second Workspace, which holds none, and the
\* focused window is moved there with the offset 1, which wraps around.
C15_Witness ==
    LET screen == search_active(root, <<>>, "Screen")
        window == search_active(root, <<>>, "Window")
        after == _move_window_to_screen(Running, 1)
    IN  /\ failed = ""
        /\ get_index(screen) = 1
        /\ window # None
        /\ Len(NodeAt(root, ParentOf(window)).children) = 2
        /\ after.failed = ""
        /\ search_active(after.root, <<>>, "Screen") = screen
        /\ NodeAt(after.root, ParentOf(screen) \o <<1, 2>>).children
               = <<NodeAt(root, window)>>

\* The tracked handles that are windows of the display server.
Live(r) == Tracked(r) \cap xvalid

\* C16: at most one tracked window has the focused border colour.  If the
\* Window at the end of the active path exists and is a window of the
\* display server, it is that one and it has the input focus; otherwise
\* every tracked window has the default border colour and the root window
\* has the input focus.
C16_Focus ==
    failed = "" =>
        LET focused_window == search_active(root, <<>>, "Window")
            h == NodeAt(root, focused_window).xlib_window
        IN  /\ Cardinality({g \in Live(root) :
                               xborder[g] = WINDOW_BORDER_COLOR_FOCUSED}) <= 1
            /\ IF focused_window # None /\ h \in xvalid
               THEN /\ xborder[h] = WINDOW_BORDER_COLOR_FOCUSED
                    /\ xfocus = h
                    /\ \A g \in Live(root) \ {h} :
                          xborder[g] = WINDOW_BORDER_COLOR_DEFAULT
               ELSE /\ \A g \in Live(root) :
                          xborder[g] = WINDOW_BORDER_COLOR_DEFAULT
                    /\ xfocus = RootWindow

\* C16's case: three tracked windows, the focus keys have put the active
\* path on one that is not the master, and it has the input focus.
C16_Witness ==
    LET focused_window == search_active(root, <<>>, "Window")
    IN  /\ failed = ""
        /\ Cardinality(Live(root)) = 3
        /\ focused_window # None
        /\ ~is_highest_index(root, focused_window)
        /\ xfocus = NodeAt(root, focused_window).xlib_window

\* Every node of a tree that may have children.
InnerNodes(r) ==
    {<<>>} \cup Range(TasksOf(r)) \cup Range(ScreensOf(r)) \cup Range(WorkspacesOf(r))

\* C17 as stated: the active index of every Root, Task, Screen and Workspace
\* is a valid index into its children, 0 <= i_active_child < len(children),
\* or is 0 when the node has no children.
C17_AsStated ==
    \A p \in InnerNodes(root) :
        LET node == NodeAt(root, p)
        IN  IF node.children = <<>> THEN node.i_active_child = 0
            ELSE 0 <= node.i_active_child
                     /\ node.i_active_child < Len(node.children)

\* C17: the active index of every Root, Task, Screen and Workspace that has
\* children is a valid index into them; that of a node without children is
\* 0, or -1 once its last child has been removed; and the root is never
\* without a Task.
C17_ActiveIndex ==
    /\ root.children # <<>>
    /\ \A p \in InnerNodes(root) :
          LET node == NodeAt(root, p)
          IN  IF node.children = <<>> THEN node.i_active_child \in {0, -1}
              ELSE 0 <= node.i_active_child
                       /\ node.i_active_child < Len(node.children)

\* C17's case: the last Window of the active Workspace has been removed and
\* the Workspace is left with the active index -1, while another Workspace
\* holds two windows and selects the second.
C17_Witness ==
    LET workspace == search_active(root, <<>>, "Workspace")
    IN  /\ failed = ""
        /\ NodeAt(root, workspace).children = <<>>
        /\ NodeAt(root, workspace).i_active_child = -1
        /\ \E w \in Range(WorkspacesOf(root)) :
              /\ Len(NodeAt(root, w).children) = 2
              /\ NodeAt(root, w).i_active_child = 1

\* Every node of a tree that has a parent.
ChildNodes(r) == (InnerNodes(r) \ {<<>>}) \cup Range(WindowsOf(r))

\* C18: Node.remove on a node with a parent takes that node, and no other,
\* out of the parent's children.  If it was the active child, the parent's
\* active index afterwards is that of the new last child; if not, it
\* selects the sibling that was active before, wherever that sibling now
\* is.  So _unhandle_window of the active Window of a Workspace makes the
\* master, the last child, the active Window, _unhandle_window of another
\* of its Windows keeps the active Window, and the input focus is on the
\* Window at the end of the active path when the server knows it and the
\* layout has not failed.
C18_Remove ==
    failed = "" =>
        /\ \A path \in ChildNodes(root) :
              LET parent == ParentOf(path)
                  p == NodeAt(root, parent)
                  k == path[Len(path)]
                  a == p.i_active_child + 1
                  q == NodeAt(remove(root, path), parent)
              IN  /\ q.children = DeleteAt(p.children, k)
                  /\ IF a = k
                     THEN q.i_active_child = Len(q.children) - 1
                     ELSE /\ q.i_active_child + 1
                                = (IF a > k THEN a - 1 ELSE a)
                          /\ q.children[q.i_active_child + 1] = p.children[a]
        /\ \A h \in Handles :
              LET after == _unhandle_window(Running, h)
                  focused_window == search_active(after.root, <<>>, "Window")
              IN  /\ \A w \in Range(WorkspacesOf(root)) :
                        LET p == NodeAt(root, w)
                            q == NodeAt(after.root, w)
                            a == p.i_active_child + 1
                        IN  h \in Range(HandlesOf(root, search_all(root, w, "Window"))) =>
                                IF p.children[a].xlib_window = h
                                THEN q.children # <<>> => LastIsActive(after.root, w)
                                ELSE q.children[q.i_active_child + 1]
                                         = p.children[a]
                  /\ (h \in Tracked(root) /\ focused_window # None
                          /\ after.failed = ""
                          /\ NodeAt(after.root, focused_window).xlib_window \in xvalid)
                         => after.xfocus
                                = NodeAt(after.root, focused_window).xlib_window

\* C18's case: a Workspace of three windows whose active Window is the
\* second; withdrawing it leaves the third, the master, active and focused,
\* and withdrawing the first leaves the second active at the index 0.
C18_Witness ==
    LET workspace == search_active(root, <<>>, "Workspace")
        p == NodeAt(root, workspace)
        gone_active == _unhandle_window(Running, p.children[2].xlib_window)
        gone_other == _unhandle_window(Running, p.children[1].xlib_window)
    IN  /\ failed = ""
        /\ Len(p.children) = 3
        /\ p.i_active_child = 1
        /\ p.children[3].xlib_window \in xvalid
        /\ NodeAt(gone_active.root, workspace).children
               = <<p.children[1], p.children[3]>>
        /\ NodeAt(gone_active.root, workspace).i_active_child = 1
        /\ gone_active.xfocus = p.children[3].xlib_window
        /\ NodeAt(gone_other.root, workspace).children
               = <<p.children[2], p.children[3]>>
        /\ NodeAt(gone_other.root, workspace).i_active_child = 0

\* C19: activate(promote=True) on a node x that has a parent leaves x the
\* last child of its parent with the siblings before it in the order they
\* had; every ancestor's active index then selects the child on the path
\* to x, so search_active from the root arrives at x; and the siblings of
\* the ancestors of x are left as they were.
C19_ActivatePromote ==
    failed = "" =>
        \A path \in ChildNodes(root) :
            LET parent == ParentOf(path)
                before == NodeAt(root, parent).children
                k == path[Len(path)]
                after == activate(root, path, TRUE)
                x == Append(parent, Len(before))
                children == NodeAt(after, parent).children
            IN  /\ Len(children) = Len(before)
                /\ children[Len(before)] = before[k]
                /\ SubSeq(children, 1, Len(before) - 1) = DeleteAt(before, k)
                /\ \A j \in 1..Len(x) :
                      NodeAt(after, SubSeq(x, 1, j - 1)).i_active_child = x[j] - 1
                /\ search_active(after, <<>>, before[k].kind) = x
                /\ \A j \in 1..Len(parent) :
                      LET was == NodeAt(root, SubSeq(x, 1, j - 1))
                          is == NodeAt(after, SubSeq(x, 1, j - 1))
                      IN  /\ DeleteAt(is.children, x[j]) = DeleteAt(was.children, x[j])
                          /\ [is EXCEPT !.children = <<>>, !.i_active_child = 0]
                                = [was EXCEPT !.children = <<>>, !.i_active_child = 0]

\* C19's case: two Tasks, the second is the active one and the first holds
\* two Windows in a Workspace; promoting the first of the two puts it after
\* the other, and the active path then runs through the first Task to it.
C19_Witness ==
    LET workspace == search_active(root, <<1>>, "Workspace")
        before == NodeAt(root, workspace).children
        after == activate(root, Append(workspace, 1), TRUE)
    IN  /\ failed = ""
        /\ Len(root.children) = 2
        /\ root.i_active_child = 1
        /\ workspace # None
        /\ Len(before) = 2
        /\ NodeAt(after, workspace).children = <<before[2], before[1]>>
        /\ after.i_active_child = 0
        /\ search_active(after, <<>>, "Window") = Append(workspace, 2)

RECURSIVE SiblingTimes(_, _, _)
\* get_sibling_by_offset(1) applied n times, each time to the node returned.
SiblingTimes(r, path, n) ==
    IF n = 0 THEN path
    ELSE SiblingTimes(r, get_sibling_by_offset(r, path, 1), n - 1)

RECURSIVE FocusWindowTimes(_, _)
\* n consecutive _focus_window_by_offset(1) commands.
FocusWindowTimes(s, n) ==
    IF n = 0 THEN s ELSE FocusWindowTimes(_focus_window_by_offset(s, 1), n - 1)

RECURSIVE FocusScreenTimes(_, _)
\* n consecutive _focus_screen_by_offset(1) commands.
FocusScreenTimes(s, n) ==
    IF n = 0 THEN s ELSE FocusScreenTimes(_focus_screen_by_offset(s, 1), n - 1)

RECURSIVE Shape(_)
\* A tree without its active indices: the nodes, their fields and the order
\* of their children.
Shape(n) ==
    [n EXCEPT !.i_active_child = 0,
              !.children = [j \in 1..Len(n.children) |-> Shape(n.children[j])]]

\* C20: get_sibling_by_offset is cyclic.  For a node with k siblings, itself
\* included, offset 1 applied k times returns the node and applied fewer
\* times another one, and two offsets congruent modulo k return the same
\* sibling.  So k consecutive _focus_window_by_offset(1) on a Workspace of k
\* Windows, and k consecutive _focus_screen_by_offset(1) on a Task of k
\* Screens, give back the tree and the active path there were, fewer give
\* another active Window (Screen), and neither command with any offset
\* changes the children or their order anywhere in the tree.
C20_CyclicSiblings ==
    failed = "" =>
        /\ \A path \in ChildNodes(root) :
              LET k == Len(NodeAt(root, ParentOf(path)).children)
              IN  /\ SiblingTimes(root, path, k) = path
                  /\ \A j \in 1..(k - 1) : SiblingTimes(root, path, j) # path
                  /\ \A a \in AnyOffsets, m \in -1..1 :
                        get_sibling_by_offset(root, path, a + m * k)
                            = get_sibling_by_offset(root, path, a)
        /\ LET window == search_active(root, <<>>, "Window")
               k == Len(NodeAt(root, ParentOf(window)).children)
               after == FocusWindowTimes(Running, k)
           IN  window # None =>
                   /\ after.root = root
                   /\ after.failed = ""
                   /\ NodeAt(root, window).xlib_window \in xvalid =>
                          after.xfocus = NodeAt(root, window).xlib_window
                   /\ \A j \in 1..(k - 1) :
                          search_active(FocusWindowTimes(Running, j).root,
                                        <<>>, "Window") # window
        /\ LET screen == search_active(root, <<>>, "Screen")
               k == Len(NodeAt(root, ParentOf(screen)).children)
               after == FocusScreenTimes(Running, k)
           IN  screen # None =>
                   /\ after.root = root
                   /\ after.failed = ""
                   /\ \A j \in 1..(k - 1) :
                          search_active(FocusScreenTimes(Running, j).root,
                                        <<>>, "Screen") # screen
        /\ \A offset \in AnyOffsets :
              /\ Shape(_focus_window_by_offset(Running, offset).root) = Shape(root)
              /\ Shape(_focus_screen_by_offset(Running, offset).root) = Shape(root)

\* C20's case: two Screens, three Windows in the active Workspace and the
\* second focused; a window focus command makes the third the active
\* Window, two make it the first and the third brings back the tree there
\* was; a screen focus command makes the other Screen active and the
\* second brings back the tree there was.
C20_Witness ==
    LET window == search_active(root, <<>>, "Window")
        screen == search_active(root, <<>>, "Screen")
    IN  /\ failed = ""
        /\ window # None
        /\ Len(NodeAt(root, ParentOf(window)).children) = 3
        /\ Len(NodeAt(root, ParentOf(screen)).children) = 2
        /\ get_index(window) = 1
        /\ search_active(FocusWindowTimes(Running, 1).root, <<>>, "Window")
               = Append(ParentOf(window), 3)
        /\ search_active(FocusWindowTimes(Running, 2).root, <<>>, "Window")
               = Append(ParentOf(window), 1)
        /\ FocusWindowTimes(Running, 3).root = root
        /\ search_active(FocusScreenTimes(Running, 1).root, <<>>, "Screen")
               # screen
        /\ FocusScreenTimes(Running, 2).root = root

\* The states the commands of one event may leave, for every event the
\* window manager may be given in the current state.
EventOutcomes ==
    {_handle_window(Running, h) : h \in Handles}
        \cup {_unhandle_window(Running, h) : h \in Handles}
        \cup {on_event_PropertyNotify(Running, name) : name \in RootNames}
        \cup {_focus_window_by_offset(Running, offset) : offset \in Offsets}
        \cup {_focus_screen_by_offset(Running, offset) : offset \in Offsets}
        \cup {_move_window_to_screen(Running, offset) : offset \in Offsets}
        \cup {_switch_workspace(Running, i) : i \in 0..(N_WORKSPACES - 1)}
        \cup {_move_window_to_workspace(Running, i) : i \in 0..(N_WORKSPACES - 1)}
        \cup {_adjust_master_factor(Running, amount) : amount \in Amounts}
        \cup {_promote_window(Running)}

\* C21: every configure, map, border-colour and input-focus request the
\* window manager sends while it processes an event is for a handle that
\* is a window of the display server at that moment; a tracked handle
\* whose window has been destroyed is never the target of one.
C21_ValidTargets ==
    failed = "" => \A after \in EventOutcomes : after.requests \subseteq xvalid

\* C22: after every processed event, every Task among the root's children
\* other than the active Task holds at least one Window in its subtree.
C22_NoEmptyInactiveTask ==
    failed = "" =>
        \A task \in Range(TasksOf(root)) :
            task # search_active(root, <<>>, "Task") =>
                search_all(root, task, "Window") # <<>>

\* No two Tasks of the tree r carry the same name.
UniqueNames(r) ==
    \A j, k \in 1..Len(get_all_task_names(r)) :
        j # k => get_all_task_names(r)[j] # get_all_task_names(r)[k]

CommandOutcomes ==
    {_switch_task(Running, name) : name \in AnyNames}
        \cup {_move_window_to_task(Running, name) : name \in AnyNames}
        \cup {_move_window_to_screen(Running, offset) : offset \in Offsets}
        \cup {_switch_workspace(Running, i) : i \in 0..(N_WORKSPACES - 1)}
        \cup {_move_window_to_workspace(Running, i) : i \in 0..(N_WORKSPACES - 1)}
        \cup {_focus_window_by_offset(Running, offset) : offset \in Offsets}
        \cup {_focus_screen_by_offset(Running, offset) : offset \in Offsets}
        \cup {_adjust_master_factor(Running, amount) : amount \in Amounts}
        \cup {_promote_window(Running)}

\* Every Window node of the tree r is the child of a Workspace.
UnderWorkspaces(r) ==
    \A w \in Range(WindowsOf(r)) :
        w # <<>> /\ NodeAt(r, ParentOf(w)).kind = "Workspace"

\* C24: every command other than _handle_window and _unhandle_window leaves
\* the tree with the window handles it had, each carried by exactly one
\* Window node, and every Window node the child of a Workspace.
C24_WindowsKept ==
    failed = "" =>
        \A after \in CommandOutcomes :
            /\ Tracked(after.root) = Tracked(root)
            /\ Len(WindowsOf(after.root)) = Len(WindowsOf(root))
            /\ Distinct(after.root)
            /\ UnderWorkspaces(after.root)

\* The slot of a configured window: its content box and the border on
\* each side.
SlotBox(g) ==
    [x |-> g.x, y |-> g.y,
     width |-> g.width + 2 * g.border_width,
     height |-> g.height + 2 * g.border_width]

\* The box a lies inside the box b.
Inside(a, b) ==
    /\ b.x <= a.x /\ a.x + a.width <= b.x + b.width
    /\ b.y <= a.y /\ a.y + a.height <= b.y + b.height

\* The boxes a and b have no point in common.
Apart(a, b) ==
    \/ a.x + a.width <= b.x \/ b.x + b.width <= a.x
    \/ a.y + a.height <= b.y \/ b.y + b.height <= a.y

\* C25: after a layout pass every window placed on a monitor has a content
\* width and height above 0, and its slot lies inside the rectangle of the
\* monitor of its Screen and has no point in common with the slot of
\* another window of the same Workspace.
C25_SlotsFit ==
    failed = "" =>
        \A w \in Shown(root) :
            LET h == NodeAt(root, w).xlib_window
                rect == monitors[w[2]]
            IN  h \in xvalid =>
                    /\ xgeom[h].width > 0
                    /\ xgeom[h].height > 0
                    /\ Inside(SlotBox(xgeom[h]), rect)
                    /\ \A v \in Shown(root) :
                          (v # w /\ ParentOf(v) = ParentOf(w)
                               /\ NodeAt(root, v).xlib_window \in xvalid) =>
                              Apart(SlotBox(xgeom[h]),
                                    SlotBox(xgeom[NodeAt(root, v).xlib_window]))

=============================================================================
